---- MODULE Spec2Model ----
(***************************************************************************)
(* Model of api/generate.js (aki8812/ai-image): the serverless handler    *)
(* that forwards an image request to Vertex AI, stores the images in the  *)
(* bucket and answers with their public URLs.                             *)
(*                                                                         *)
(* src/api/generate.js holds three revisions of the endpoint one after    *)
(* the other: lines 1-318 (revision 1), 319-649 (revision 2) and 650-880  *)
(* (revision 3).  The variable rev says which revision is deployed; every *)
(* operator that differs between revisions takes it as a parameter.       *)
(*                                                                         *)
(* One behaviour is the life of one request: the synchronous part of the  *)
(* handler up to its first await is one action, and every await (token,   *)
(* provider HTTP call, file.save, file.makePublic) resumes in an action   *)
(* of its own, together with everything the code runs until it suspends   *)
(* again (microtasks included).                                           *)
(***************************************************************************)
EXTENDS Integers, Sequences, FiniteSets, TLC

VARIABLES
    rev,        \* deployed revision of the handler: 1, 2 or 3
    pc,         \* where the handler is suspended
    req,        \* the request being handled (method and body)
    tokenCalls, \* client.getAccessToken() calls issued
    httpCalls,  \* fetch() calls issued to the provider (vertexFetch)
    payload,    \* body of the provider call that was issued
    answers,    \* what the fetches of vertexFetch ended in, in order
    meta,       \* metadata handed to saveImagesToStorage
    uploads,    \* one task per image: the async callback of base64DataArray.map
    store,      \* objects in the bucket
    responses,  \* responses written to res, in order
    conc        \* requests handled concurrently by one instance, and tokens issued

vars ==
    <<rev, pc, req, tokenCalls, httpCalls, payload, answers, meta, uploads, store, responses,
      conc>>

(***************************************************************************)
(* Bounds of the model.                                                    *)
(***************************************************************************)
\* longest predictions array the provider answers with
MaxPredictions == 2

\* requests one instance handles at the same time
MaxRequests == 2

(***************************************************************************)
(* JavaScript values.  A value that the code parses or tests for           *)
(* truthiness is a tagged record; strings that are parsed are tuples of    *)
(* one-character strings.                                                  *)
(***************************************************************************)
NoValue == "<undefined>"

JUndef == [t |-> "undefined"]
JNaN == [t |-> "NaN"]
JNum(n) == [t |-> "number", n |-> n]
JStr(s) == [t |-> "string", s |-> s]

DigitChars == {"0", "1", "2", "3", "4", "5", "6", "7", "8", "9"}

DigitVal(c) ==
    CASE c = "0" -> 0 [] c = "1" -> 1 [] c = "2" -> 2 [] c = "3" -> 3
      [] c = "4" -> 4 [] c = "5" -> 5 [] c = "6" -> 6 [] c = "7" -> 7
      [] c = "8" -> 8 [] c = "9" -> 9

RECURSIVE SkipSpaces(_)
SkipSpaces(s) ==
    IF s # <<>> /\ Head(s) = " " THEN SkipSpaces(Tail(s)) ELSE s

RECURSIVE DigitPrefix(_)
DigitPrefix(s) ==
    IF s # <<>> /\ Head(s) \in DigitChars
    THEN <<Head(s)>> \o DigitPrefix(Tail(s))
    ELSE <<>>

RECURSIVE DigitsValue(_, _)
DigitsValue(ds, acc) ==
    IF ds = <<>> THEN acc ELSE DigitsValue(Tail(ds), 10 * acc + DigitVal(Head(ds)))

\* parseInt of a string: leading blanks, an optional sign, then the longest
\* run of decimal digits; NaN when there is no digit.
ParseChars(s) ==
    LET t == SkipSpaces(s)
        neg == t # <<>> /\ Head(t) = "-"
        u == IF t # <<>> /\ Head(t) \in {"-", "+"} THEN Tail(t) ELSE t
        ds == DigitPrefix(u)
    IN  IF ds = <<>> THEN JNaN
        ELSE JNum(IF neg THEN 0 - DigitsValue(ds, 0) ELSE DigitsValue(ds, 0))

\* parseInt(v): the argument is converted to a string first; an integer
\* number prints as its digits, undefined prints as "undefined".
ParseInt(v) ==
    CASE v.t = "number" -> JNum(v.n)
      [] v.t = "string" -> ParseChars(v.s)
      [] OTHER -> JNaN

\* (parsed || dflt): NaN and 0 are falsy.
OrDefault(parsed, dflt) ==
    IF parsed.t = "NaN" \/ parsed.n = 0 THEN dflt ELSE parsed.n

\* truthiness of a value
Truthy(v) ==
    CASE v.t = "undefined" -> FALSE
      [] v.t = "NaN" -> FALSE
      [] v.t = "number" -> v.n # 0
      [] v.t = "string" -> v.s # <<>>

\* truthiness of a string-or-undefined field kept as a plain string
TruthyStr(s) == s \notin {NoValue, ""}

S1024 == JStr(<<"1", "0", "2", "4">>)
S2048 == JStr(<<"2", "0", "4", "8">>)
S4096 == JStr(<<"4", "0", "9", "6">>)

\* text.includes("404")
RECURSIVE Includes404(_)
Includes404(s) ==
    IF Len(s) < 3 THEN FALSE
    ELSE IF s[1] = "4" /\ s[2] = "0" /\ s[3] = "4" THEN TRUE
    ELSE Includes404(Tail(s))

(***************************************************************************)
(* Inputs: the requests a client can send and the answers the token       *)
(* provider, Vertex AI and the bucket can give.                           *)
(***************************************************************************)
Revisions == {1, 2, 3}

Methods == {"OPTIONS", "GET", "POST"}

GenerateModes == {"generate-default", "generate-fast", "generate-ultra"}

\* NoValue is a body without mode; "bogus" is a mode no revision names
Modes == GenerateModes \cup {"generate-nanobanana", "upscale", "bogus", NoValue}

NumImagesInputs ==
    {JUndef, JNum(0), JNum(0 - 1), JNum(2), JNum(7),
     JStr(<<"a", "b", "c">>), JStr(<<"3">>)}

AspectRatios == {NoValue, "16:9"}

SampleImageSizes == {JUndef, S1024, S2048, S4096}

UpscaleLevels == {JUndef, JNum(4096), S2048}

\* images: the body carries a non-empty images array (revisions 1 and 2);
\* image: the body carries image.base64Data (revision 3)
Bodies ==
    [mode : Modes, numImages : NumImagesInputs, aspectRatio : AspectRatios,
     sampleImageSize : SampleImageSizes, upscaleLevel : UpscaleLevels,
     images : BOOLEAN, image : BOOLEAN]

NoBody ==
    [mode |-> NoValue, numImages |-> JUndef, aspectRatio |-> NoValue,
     sampleImageSize |-> JUndef, upscaleLevel |-> JUndef,
     images |-> FALSE, image |-> FALSE]

NoRequest == [method |-> "none", body |-> NoBody]

\* texts of a Gemini text part: an ordinary refusal, and refusals that
\* happen to contain the characters 404
RefusalTexts == {<<"n", "o">>, <<"4", "0", "4">>, <<"r", "4", "0", "4", "x">>}

ImagePart == [inlineData |-> TRUE, mimeType |-> "image/png", text |-> <<>>]
AudioPart == [inlineData |-> TRUE, mimeType |-> "audio/wav", text |-> <<>>]
TextPart(t) == [inlineData |-> FALSE, mimeType |-> NoValue, text |-> t]

\* candidates[0].content.parts of a well-formed Gemini answer
PartLists ==
    {<<>>, <<ImagePart>>, <<AudioPart>>, <<TextPart(<<>>)>>}
    \cup {<<TextPart(t)>> : t \in RefusalTexts}
    \cup {<<TextPart(t), ImagePart>> : t \in {<<"n", "o">>}}

Status404 == <<"4", "0", "4">>
Status500 == <<"5", "0", "0">>

\* what one fetch() of vertexFetch can end in
TransportFailures ==
    {[k |-> "neterr"], [k |-> "badjson"],
     [k |-> "status", status |-> Status404, json |-> TRUE, text |-> <<"n", "f">>],
     [k |-> "status", status |-> Status500, json |-> FALSE, text |-> <<"b", "u", "s", "y">>]}

\* predictions: one flag per prediction, TRUE when it carries bytesBase64Encoded
PredictionLists == UNION {[1..n -> BOOLEAN] : n \in 0..MaxPredictions}

PredictOutcomes ==
    TransportFailures
    \cup {[k |-> "ok", hasPredictions |-> FALSE, predictions |-> <<>>]}
    \cup {[k |-> "ok", hasPredictions |-> TRUE, predictions |-> p] : p \in PredictionLists}

GenerateContentOutcomes ==
    TransportFailures
    \cup {[k |-> "ok", candidates |-> c, parts |-> <<>>] : c \in {"undefined", "empty"}}
    \cup {[k |-> "ok", candidates |-> "list", parts |-> p] : p \in PartLists}

\* error messages of the blob store's save and makePublic
StorageErrors == {<<"storage error">>, <<"storage error ", "4", "0", "4">>}

(***************************************************************************)
(* The handlers' pure parts.                                               *)
(***************************************************************************)
Min(a, b) == IF a < b THEN a ELSE b
Max(a, b) == IF a > b THEN a ELSE b

\* a size label: fixed text, or `${targetSize}px (Upscaled)` with px > 0
SizeLabel(px, text) == [px |-> px, text |-> text]

\* the method checks at the top of handler
MethodOutcomeAnyMethod(method) ==
    IF method = "OPTIONS" THEN "preflight" ELSE "dispatch"

MethodOutcome(method) ==
    IF method = "OPTIONS" THEN "preflight"
    ELSE IF method # "POST" THEN "reject"
    ELSE "dispatch"

\* the mode dispatch of handler: which handler the body goes to
Route(r, mode) ==
    IF r = 3
    THEN CASE mode = "upscale" -> "upscale"
           [] mode \in GenerateModes -> "imagen"
           [] OTHER -> "invalid"
    ELSE CASE mode = "generate-nanobanana" -> "nanobanana"
           [] mode = "upscale" -> IF r = 1 THEN "upscale" ELSE "unavailable"
           [] OTHER -> "imagen"

\* modelId of handleImagen / handleGeneration
ImagenModelId(r, mode) ==
    IF r = 2
    THEN IF mode = "generate-fast" THEN "imagen-3.0-fast-generate-001"
         ELSE "imagen-3.0-generate-001"
    ELSE CASE mode = "generate-fast" -> "imagen-4.0-fast-generate-001"
           [] mode = "generate-ultra" -> "imagen-4.0-ultra-generate-001"
           [] OTHER -> "imagen-4.0-generate-001"

SafeNumImagesNoFloor(numImages) ==
    Min(OrDefault(ParseInt(numImages), 1), 4)

\* let safeNumImages = parseInt(numImages) || 1;
\* safeNumImages = Math.max(1, Math.min(safeNumImages, 4));
SafeNumImages(numImages) ==
    Max(1, Min(OrDefault(ParseInt(numImages), 1), 4))

\* parameters.sampleImageSize and sizeLabel of handleImagen / handleGeneration
ImagenSize(r, sampleImageSize) ==
    CASE r = 1 ->
           IF sampleImageSize = S2048 \/ sampleImageSize = S4096
           THEN [tier |-> "2K", label |-> SizeLabel(0, "2048x2048")]
           ELSE [tier |-> "1K", label |-> SizeLabel(0, "1024x1024")]
      [] r = 2 ->
           IF sampleImageSize = S2048 \/ sampleImageSize = S4096
           THEN [tier |-> "2K", label |-> SizeLabel(0, "1024x1024")]
           ELSE [tier |-> NoValue, label |-> SizeLabel(0, "1024x1024")]
      [] r = 3 ->
           IF Truthy(sampleImageSize)
           THEN IF ParseInt(sampleImageSize) = JNum(2048)
                THEN [tier |-> "2K", label |-> SizeLabel(0, "2048x2048")]
                ELSE [tier |-> "1K", label |-> SizeLabel(0, "1024x1024")]
           ELSE [tier |-> NoValue, label |-> SizeLabel(0, "1024x1024")]

\* image_size and displaySize of handleNanoBanana
NanoSize(sampleImageSize) ==
    CASE sampleImageSize = S4096 -> [tier |-> "4K", label |-> SizeLabel(0, "4K")]
      [] sampleImageSize = S2048 -> [tier |-> "2K", label |-> SizeLabel(0, "2K")]
      [] OTHER -> [tier |-> NoValue, label |-> SizeLabel(0, "1K (Default)")]

\* const targetAspectRatio = aspectRatio || "1:1";
TargetAspectRatio(aspectRatio) ==
    IF TruthyStr(aspectRatio) THEN aspectRatio ELSE "1:1"

\* the reference image that handleImagen / handleGeneration attaches
ImagenHasImage(r, body) == IF r = 3 THEN body.image ELSE body.images

\* body of the predict call of handleImagen / handleGeneration
ImagenPayload(r, body) ==
    [family |-> "predict",
     model |-> ImagenModelId(r, body.mode),
     image |-> ImagenHasImage(r, body),
     sampleCount |-> SafeNumImages(body.numImages),
     sampleImageSize |-> ImagenSize(r, body.sampleImageSize).tier,
     aspectRatio |-> IF TruthyStr(body.aspectRatio) THEN body.aspectRatio ELSE NoValue,
     mode |-> NoValue,
     upscaleFactor |-> NoValue]

\* metadata handleImagen / handleGeneration hands to saveImagesToStorage
ImagenMeta(r, body) ==
    [aspectRatio |-> body.aspectRatio,
     size |-> ImagenSize(r, body.sampleImageSize).label,
     mode |-> body.mode]

\* body of the generateContent call of handleNanoBanana
NanoPayload(r, body) ==
    [family |-> "generateContent",
     model |-> "gemini-3-pro-image-preview",
     image |-> FALSE,
     sampleCount |-> 0,
     sampleImageSize |-> NanoSize(body.sampleImageSize).tier,
     aspectRatio |-> TargetAspectRatio(body.aspectRatio),
     mode |-> NoValue,
     upscaleFactor |-> NoValue]

\* metadata handleNanoBanana hands to saveImagesToStorage
NanoMeta(r, body) ==
    [aspectRatio |-> TargetAspectRatio(body.aspectRatio),
     size |-> NanoSize(body.sampleImageSize).label,
     mode |-> "generate-nanobanana"]

\* const targetSize = parseInt(upscaleLevel) || 2048;
UpscaleTargetSize(upscaleLevel) == OrDefault(ParseInt(upscaleLevel), 2048)

UpscaleFactor(targetSize) == IF targetSize > 2048 THEN "x4" ELSE "x2"

UpscaleModelId(r, targetSize) ==
    IF r = 3 /\ targetSize <= 2048 THEN "imagen-4.0-generate-001"
    ELSE "imagen-4.0-ultra-generate-001"

UpscaleMissingImageNever(r, body) == FALSE

\* if (!images || images.length === 0) throw ...  (revision 3: !image || !image.base64Data)
UpscaleMissingImage(r, body) == IF r = 3 THEN ~body.image ELSE ~body.images

\* body of the predict call of handleUpscaling
UpscalePayload(r, body) ==
    [family |-> "predict",
     model |-> UpscaleModelId(r, UpscaleTargetSize(body.upscaleLevel)),
     image |-> TRUE,
     sampleCount |-> 1,
     sampleImageSize |-> NoValue,
     aspectRatio |-> NoValue,
     mode |-> "upscale",
     upscaleFactor |-> UpscaleFactor(UpscaleTargetSize(body.upscaleLevel))]

\* metadata handleUpscaling hands to saveImagesToStorage
UpscaleMeta(r, body) ==
    [aspectRatio |-> "Original",
     size |-> SizeLabel(UpscaleTargetSize(body.upscaleLevel), "px (Upscaled)"),
     mode |-> "upscale"]

NoPayload ==
    [family |-> "none", model |-> NoValue, image |-> FALSE, sampleCount |-> 0,
     sampleImageSize |-> NoValue, aspectRatio |-> NoValue, mode |-> NoValue,
     upscaleFactor |-> NoValue]

NoMeta == [aspectRatio |-> NoValue, size |-> SizeLabel(0, NoValue), mode |-> NoValue]

(***************************************************************************)
(* Error messages are tuples: a fixed text of the code is one element,    *)
(* text that comes from outside is spelled character by character.        *)
(***************************************************************************)
Thrown(msg) == [ok |-> FALSE, message |-> msg, images |-> <<>>]
Returned(images) == [ok |-> TRUE, message |-> <<>>, images |-> images]

\* await response.text() of a non-2xx answer
RawBody(out) ==
    IF out.json THEN <<"{error:{message:">> \o out.text \o <<"}}">> ELSE out.text

StatusText(status) == IF status = Status404 THEN "Not Found" ELSE "Internal Server Error"

\* the Error vertexFetch throws when the fetch does not yield a JSON result
VertexFetchError(r, out) ==
    CASE out.k = "neterr" -> <<"request to Vertex AI failed">>
      [] out.k = "badjson" -> <<"invalid json response body">>
      [] out.k = "status" ->
           IF r = 3
           THEN <<"Vertex AI Error: ", StatusText(out.status), " - ">> \o RawBody(out)
           ELSE <<"Vertex AI Error (">> \o out.status \o <<"): ">>
                \o (IF out.json /\ out.text # <<>> THEN out.text ELSE RawBody(out))

ShouldRetryNoImage(r, out, attempt) ==
    /\ attempt < 3
    /\ \/ out.k # "ok"
       \/ /\ "parts" \in DOMAIN out
          /\ \A i \in 1..Len(out.parts) : ~out.parts[i].inlineData

\* vertexFetch awaits one fetch and throws or returns: no answer of the
\* provider makes it, or its caller, issue the call again
ShouldRetry(r, out, attempt) == FALSE

\* parts.find(p => p.inlineData ...): is there an image part
IsImagePart(r, p) ==
    IF r = 2 THEN p.inlineData /\ p.mimeType \in {"image/png"} ELSE p.inlineData

\* parts.find(p => p.text): the text of the first part with a non-empty text
RECURSIVE FirstText(_)
FirstText(parts) ==
    IF parts = <<>> THEN <<>>
    ELSE IF Head(parts).text # <<>> THEN Head(parts).text
    ELSE FirstText(Tail(parts))

\* catch (error) of handleNanoBanana, revision 2 only
NanoCatch(r, msg) ==
    IF r = 2 /\ Includes404(msg)
    THEN <<"cannot access model gemini-3-pro-image-preview">>
    ELSE msg

\* handleNanoBanana from the answer of vertexFetch to the throw or to the
\* images handed to saveImagesToStorage
NanoResult(r, out) ==
    IF out.k # "ok" THEN Thrown(VertexFetchError(r, out))
    ELSE IF out.candidates # "list" THEN Thrown(<<"Gemini returned no candidates">>)
    ELSE IF \E i \in 1..Len(out.parts) : IsImagePart(r, out.parts[i])
    THEN Returned(<<TRUE>>)
    ELSE IF FirstText(out.parts) # <<>>
    THEN Thrown(<<IF r = 1 THEN "Gemini returned text instead of an image: "
                  ELSE "Gemini refused to draw and replied: ">>
                \o FirstText(out.parts))
    ELSE Thrown(<<"Gemini generated no image data">>)

\* handleImagen / handleGeneration after vertexFetch:
\* if (!result.predictions) throw ...; predictions.map(p => p.bytesBase64Encoded)
ImagenResult(r, out) ==
    IF out.k # "ok" THEN Thrown(VertexFetchError(r, out))
    ELSE IF ~out.hasPredictions THEN Thrown(<<"API returned no predictions">>)
    ELSE Returned(out.predictions)

\* handleUpscaling after vertexFetch:
\* const base64Data = result.predictions?.[0]?.bytesBase64Encoded; if (!base64Data) throw
UpscaleResult(r, out) ==
    IF out.k # "ok" THEN Thrown(VertexFetchError(r, out))
    ELSE IF ~out.hasPredictions \/ out.predictions = <<>> \/ ~out.predictions[1]
    THEN Thrown(<<"upscale failed, API returned no image">>)
    ELSE Returned(<<TRUE>>)

\* the handler's work from the token to its first provider call or throw
Dispatch(r, body) ==
    LET route == Route(r, body.mode) IN
    CASE route = "invalid" ->
           [throws |-> TRUE, message |-> <<"invalid mode: ", body.mode>>,
            payload |-> NoPayload, meta |-> NoMeta]
      [] route = "unavailable" ->
           [throws |-> TRUE, message |-> <<"Upscale mode is currently unavailable.">>,
            payload |-> NoPayload, meta |-> NoMeta]
      [] route = "upscale" ->
           IF UpscaleMissingImage(r, body)
           THEN [throws |-> TRUE, message |-> <<"missing the image to upscale">>,
                 payload |-> NoPayload, meta |-> NoMeta]
           ELSE [throws |-> FALSE, message |-> <<>>,
                 payload |-> UpscalePayload(r, body), meta |-> UpscaleMeta(r, body)]
      [] route = "imagen" ->
           [throws |-> FALSE, message |-> <<>>,
            payload |-> ImagenPayload(r, body), meta |-> ImagenMeta(r, body)]
      [] route = "nanobanana" ->
           [throws |-> FALSE, message |-> <<>>,
            payload |-> NanoPayload(r, body), meta |-> NanoMeta(r, body)]

\* the answers the provider can give to the call of a route
OutcomesOf(route) ==
    IF route = "nanobanana" THEN GenerateContentOutcomes ELSE PredictOutcomes

\* a handler from the answer of its provider call on
HandlerResult(r, route, out) ==
    CASE route = "nanobanana" -> NanoResult(r, out)
      [] route = "upscale" -> UpscaleResult(r, out)
      [] OTHER -> ImagenResult(r, out)

\* what the handler's own catch does to an error on its way to handler
HandlerCatch(r, route, msg) ==
    IF route = "nanobanana" THEN NanoCatch(r, msg) ELSE msg

(***************************************************************************)
(* Responses and the upload tasks of saveImagesToStorage.                  *)
(***************************************************************************)
Preflight == [status |-> 200, kind |-> "empty", images |-> <<>>, message |-> <<>>]

MethodNotAllowed ==
    [status |-> 405, kind |-> "text", images |-> <<>>, message |-> <<"Method Not Allowed">>]

\* res.status(200).json({ images: generatedResults })
Success(images) == [status |-> 200, kind |-> "images", images |-> images, message |-> <<>>]

FailureStatusOk(msg) ==
    [status |-> 200, kind |-> "error", images |-> <<>>,
     message |-> IF msg = <<>> THEN <<"server error">> ELSE msg]

\* res.status(500).json({ error: { message: error.message || "..." } })
Failure(msg) ==
    [status |-> 500, kind |-> "error", images |-> <<>>,
     message |-> IF msg = <<>> THEN <<"server error">> ELSE msg]

StartTaskNoAwaitSave(i, hasBytes) ==
    [key |-> i,
     st |-> IF hasBytes THEN "publishing" ELSE "failed",
     rank |-> 0,
     error |-> IF hasBytes THEN <<>> ELSE <<"TypeError: first argument must be a string">>]

\* the async callback of base64DataArray.map, run up to its first await:
\* Buffer.from throws on a prediction without bytes, otherwise file.save is
\* issued under a fresh file name (Date.now() and uuidv4(): the i-th task's
\* name is key i, no two tasks share one).  rank is the position at which
\* the task completed among the completed tasks, 0 while it has not.
StartTask(i, hasBytes) ==
    [key |-> i,
     st |-> IF hasBytes THEN "saving" ELSE "failed",
     rank |-> 0,
     error |-> IF hasBytes THEN <<>> ELSE <<"TypeError: first argument must be a string">>]

StartTasks(images) == [i \in 1..Len(images) |-> StartTask(i, images[i])]

\* the record the callback returns once the object is public
RecordOf(task, m) ==
    [url |-> task.key, aspectRatio |-> m.aspectRatio, size |-> m.size, mode |-> m.mode]

AllDone(tasks) == \A i \in 1..Len(tasks) : tasks[i].st = "done"

Failed(tasks) == {i \in 1..Len(tasks) : tasks[i].st = "failed"}

Done(tasks) == {i \in 1..Len(tasks) : tasks[i].st = "done"}

\* the task that completed in position j
CompletedAt(tasks, j) == CHOOSE k \in Done(tasks) : tasks[k].rank = j

SettledPartial(r, route, tasks, m, i) ==
    IF \E j \in 1..Len(tasks) : tasks[j].st \in {"saving", "publishing"}
    THEN <<>>
    ELSE <<Success([j \in 1..Cardinality(Done(tasks)) |->
                      RecordOf(tasks[CompletedAt(tasks, j)], m)])>>

SettledByCompletion(r, route, tasks, m, i) ==
    IF i # 0 /\ tasks[i].st = "failed"
    THEN <<Failure(HandlerCatch(r, route, tasks[i].error))>>
    ELSE IF Failed(tasks) # {}
    THEN <<Failure(HandlerCatch(r, route,
                   tasks[CHOOSE j \in Failed(tasks) : \A k \in Failed(tasks) : j <= k].error))>>
    ELSE IF AllDone(tasks)
    THEN <<Success([j \in 1..Len(tasks) |-> RecordOf(tasks[CompletedAt(tasks, j)], m)])>>
    ELSE <<>>

\* Promise.all(uploadPromises) as the handler sees it when task i has just
\* settled (i = 0: right after the tasks were started): nothing while tasks
\* are pending, the rejection of the first task that failed, or every record
\* in the order of the images
Settled(r, route, tasks, m, i) ==
    IF i # 0 /\ tasks[i].st = "failed"
    THEN <<Failure(HandlerCatch(r, route, tasks[i].error))>>
    ELSE IF Failed(tasks) # {}
    THEN <<Failure(HandlerCatch(r, route,
                   tasks[CHOOSE j \in Failed(tasks) : \A k \in Failed(tasks) : j <= k].error))>>
    ELSE IF AllDone(tasks)
    THEN <<Success([j \in 1..Len(tasks) |-> RecordOf(tasks[j], m)])>>
    ELSE <<>>

(***************************************************************************)
(* The state machine.                                                      *)
(***************************************************************************)
\* no concurrent requests: one request is followed through the whole handler
NoConc == [issued |-> 0, h |-> <<>>]

Init ==
    /\ rev \in Revisions
    /\ pc = "idle"
    /\ req = NoRequest
    /\ tokenCalls = 0
    /\ httpCalls = 0
    /\ payload = NoPayload
    /\ answers = <<>>
    /\ meta = NoMeta
    /\ uploads = <<>>
    /\ store = {}
    /\ responses = <<>>
    /\ conc = NoConc

\* handler(req, res) up to its first await.  The body is read only on the
\* POST path.
Receive ==
    /\ pc = "idle"
    /\ \E method \in Methods, body \in Bodies :
         /\ method # "POST" => body = NoBody
         /\ req' = [method |-> method, body |-> body]
         /\ CASE MethodOutcome(method) = "preflight" ->
                   /\ responses' = <<Preflight>>
                   /\ pc' = "done"
              [] MethodOutcome(method) = "reject" ->
                   /\ responses' = <<MethodNotAllowed>>
                   /\ pc' = "done"
              [] OTHER ->
                   /\ responses' = responses
                   /\ pc' = "getClient"
    /\ UNCHANGED <<rev, tokenCalls, httpCalls, payload, answers, meta, uploads, store, conc>>

\* await auth.getClient() resumes; client.getAccessToken() is called
GetClientReturn ==
    /\ pc = "getClient"
    /\ \E ok \in BOOLEAN :
         IF ok
         THEN /\ tokenCalls' = tokenCalls + 1
              /\ pc' = "getAccessToken"
              /\ responses' = responses
         ELSE /\ tokenCalls' = tokenCalls
              /\ pc' = "done"
              /\ responses' = <<Failure(<<"could not load the auth client">>)>>
    /\ UNCHANGED <<rev, req, httpCalls, payload, answers, meta, uploads, store, conc>>

\* await client.getAccessToken() resumes; the handler dispatches on the mode
\* and runs to the fetch of vertexFetch or to a throw
GetAccessTokenReturn ==
    /\ pc = "getAccessToken"
    /\ \E ok \in BOOLEAN :
         LET d == Dispatch(rev, req.body) IN
         IF ~ok
         THEN /\ pc' = "done"
              /\ responses' = <<Failure(<<"could not get an access token">>)>>
              /\ UNCHANGED <<httpCalls, payload, meta>>
         ELSE IF d.throws
         THEN /\ pc' = "done"
              /\ responses' = <<Failure(d.message)>>
              /\ UNCHANGED <<httpCalls, payload, meta>>
         ELSE /\ pc' = "provider"
              /\ httpCalls' = httpCalls + 1
              /\ payload' = d.payload
              /\ meta' = d.meta
              /\ responses' = responses
    /\ UNCHANGED <<rev, req, tokenCalls, answers, uploads, store, conc>>

\* the fetch of vertexFetch settles; the handler parses the answer and
\* either throws (500) or starts one upload task per image
ProviderReturn ==
    /\ pc = "provider"
    /\ LET route == Route(rev, req.body.mode) IN
       \E out \in OutcomesOf(route) :
         LET res == HandlerResult(rev, route, out)
             tasks == StartTasks(res.images)
             settled == Settled(rev, route, tasks, meta, 0)
         IN
         /\ answers' = Append(answers, out)
         /\ IF ShouldRetry(rev, out, httpCalls)
            THEN /\ httpCalls' = httpCalls + 1
                 /\ UNCHANGED <<pc, uploads, responses>>
            ELSE IF ~res.ok
            THEN /\ pc' = "done"
                 /\ responses' = <<Failure(HandlerCatch(rev, route, res.message))>>
                 /\ UNCHANGED <<httpCalls, uploads>>
            ELSE /\ uploads' = tasks
                 /\ responses' = settled
                 /\ pc' = IF settled = <<>> THEN "uploading" ELSE "done"
                 /\ UNCHANGED httpCalls
    /\ UNCHANGED <<rev, req, tokenCalls, payload, meta, store, conc>>

\* await file.save(...) of task i settles; on success file.makePublic() is
\* called.  A failure rejects Promise.all, which the handler answers with
\* 500 unless it has answered already.
SaveReturn ==
    \E i \in 1..Len(uploads) :
      /\ uploads[i].st = "saving"
      /\ \/ /\ uploads' = [uploads EXCEPT ![i].st = "publishing"]
            /\ store' = store \cup {[key |-> uploads[i].key, image |-> i, public |-> FALSE]}
            /\ UNCHANGED <<pc, responses>>
         \/ \E e \in StorageErrors :
              LET tasks == [uploads EXCEPT ![i].st = "failed", ![i].error = e] IN
              /\ uploads' = tasks
              /\ store' = store
              /\ responses' = IF pc = "uploading"
                              THEN Settled(rev, Route(rev, req.body.mode), tasks, meta, i)
                              ELSE responses
              /\ pc' = "done"
      /\ UNCHANGED <<rev, req, tokenCalls, httpCalls, payload, answers, meta, conc>>

\* await file.makePublic() of task i settles; on success the task returns
\* its record, and when it was the last one the handler answers 200
MakePublicReturn ==
    \E i \in 1..Len(uploads) :
      /\ uploads[i].st = "publishing"
      /\ \/ LET tasks == [uploads EXCEPT ![i].st = "done",
                                          ![i].rank = 1 + Cardinality(Done(uploads))]
                settled == Settled(rev, Route(rev, req.body.mode), tasks, meta, i)
            IN
            /\ uploads' = tasks
            /\ store' = (store \ {[key |-> uploads[i].key, image |-> i, public |-> FALSE]})
                        \cup {[key |-> uploads[i].key, image |-> i, public |-> TRUE]}
            /\ responses' = IF pc = "uploading" THEN settled ELSE responses
            /\ pc' = IF pc = "uploading" /\ settled = <<>> THEN "uploading" ELSE "done"
         \/ \E e \in StorageErrors :
              LET tasks == [uploads EXCEPT ![i].st = "failed", ![i].error = e] IN
              /\ uploads' = tasks
              /\ store' = store
              /\ responses' = IF pc = "uploading"
                              THEN Settled(rev, Route(rev, req.body.mode), tasks, meta, i)
                              ELSE responses
              /\ pc' = "done"
      /\ UNCHANGED <<rev, req, tokenCalls, httpCalls, payload, answers, meta, conc>>

Next ==
    \/ Receive
    \/ GetClientReturn
    \/ GetAccessTokenReturn
    \/ ProviderReturn
    \/ SaveReturn
    \/ MakePublicReturn

Spec == Init /\ [][Next]_vars

TypeOK ==
    /\ rev \in Revisions
    /\ pc \in {"idle", "getClient", "getAccessToken", "provider", "uploading", "done"}
    /\ tokenCalls \in 0..1
    /\ httpCalls \in 0..1
    /\ Len(responses) <= 1

(***************************************************************************)
(* Concurrent requests.  One instance of the module serves several         *)
(* requests at a time: each call of handler has its own client, authToken  *)
(* and headers, and all calls share the module-level auth.  A request is   *)
(* followed from its arrival to its response; what the handler does        *)
(* between the provider's answer and the response (parsing, uploads) does  *)
(* not read the token and is one step here.  The token provider is opaque: *)
(* every client.getAccessToken() that resolves hands out a token object,   *)
(* numbered in the order of issue.                                         *)
(***************************************************************************)
Requests == 1..MaxRequests

\* bodies of the concurrent requests: every mode, with an image attached
ConcBodies ==
    {[NoBody EXCEPT !.mode = m, !.images = TRUE, !.image = TRUE] : m \in Modes}

\* a call of handler that has not started
NoCall ==
    [pc |-> "idle", method |-> "none", body |-> NoBody, clientCalls |-> 0,
     tokenCalls |-> 0, obtained |-> 0, httpCalls |-> 0, bearer |-> 0, status |-> 0]

\* tokens the requests have obtained so far
Obtained(h) == {h[q].obtained : q \in DOMAIN h} \ {0}

AuthorizationOldest(h, token) ==
    IF Obtained(h) = {} THEN token
    ELSE CHOOSE t \in Obtained(h) : \A u \in Obtained(h) : t <= u

\* "Authorization": `Bearer ${authToken.token}`, authToken being the const
\* of this call of handler
Authorization(h, token) == token

ConcInit ==
    /\ rev \in Revisions
    /\ pc = "idle"
    /\ req = NoRequest
    /\ tokenCalls = 0
    /\ httpCalls = 0
    /\ payload = NoPayload
    /\ answers = <<>>
    /\ meta = NoMeta
    /\ uploads = <<>>
    /\ store = {}
    /\ responses = <<>>
    /\ conc = [issued |-> 0, h |-> [r \in Requests |-> NoCall]]

\* handler(req, res) of request r up to its first await: auth.getClient()
ConcReceive(r) ==
    /\ conc.h[r].pc = "idle"
    /\ \E method \in Methods, body \in ConcBodies :
         /\ method # "POST" => body = [NoBody EXCEPT !.images = TRUE, !.image = TRUE]
         /\ conc' = [conc EXCEPT !.h[r] =
              CASE MethodOutcome(method) = "preflight" ->
                     [@ EXCEPT !.pc = "done", !.method = method, !.status = 200]
                [] MethodOutcome(method) = "reject" ->
                     [@ EXCEPT !.pc = "done", !.method = method, !.status = 405]
                [] OTHER ->
                     [@ EXCEPT !.pc = "getClient", !.method = method, !.body = body,
                               !.clientCalls = @ + 1]]
    /\ UNCHANGED <<rev, pc, req, tokenCalls, httpCalls, payload, answers, meta, uploads,
                   store, responses>>

\* await auth.getClient() of request r resumes; client.getAccessToken() is called
ConcGetClientReturn(r) ==
    /\ conc.h[r].pc = "getClient"
    /\ \E ok \in BOOLEAN :
         conc' = [conc EXCEPT !.h[r] =
              IF ok
              THEN [@ EXCEPT !.pc = "getAccessToken", !.tokenCalls = @ + 1]
              ELSE [@ EXCEPT !.pc = "done", !.status = 500]]
    /\ UNCHANGED <<rev, pc, req, tokenCalls, httpCalls, payload, answers, meta, uploads,
                   store, responses>>

\* await client.getAccessToken() of request r resumes; the handler builds its
\* headers, dispatches on the mode and runs to the fetch of vertexFetch or to
\* a throw
ConcGetAccessTokenReturn(r) ==
    /\ conc.h[r].pc = "getAccessToken"
    /\ \E ok \in BOOLEAN :
         LET d == Dispatch(rev, conc.h[r].body)
             token == conc.issued + 1
             got == [conc.h EXCEPT ![r].obtained = token]
         IN
         IF ~ok
         THEN conc' = [conc EXCEPT !.h[r].pc = "done", !.h[r].status = 500]
         ELSE IF d.throws
         THEN conc' = [issued |-> token,
                       h |-> [got EXCEPT ![r].pc = "done", ![r].status = 500]]
         ELSE conc' = [issued |-> token,
                       h |-> [got EXCEPT ![r].pc = "provider",
                                         ![r].httpCalls = @ + 1,
                                         ![r].bearer = Authorization(got, token)]]
    /\ UNCHANGED <<rev, pc, req, tokenCalls, httpCalls, payload, answers, meta, uploads,
                   store, responses>>

\* the provider call of request r settles and the handler runs to its response
ConcProviderReturn(r) ==
    /\ conc.h[r].pc = "provider"
    /\ \E ok \in BOOLEAN :
         conc' = [conc EXCEPT !.h[r].pc = "done",
                              !.h[r].status = IF ok THEN 200 ELSE 500]
    /\ UNCHANGED <<rev, pc, req, tokenCalls, httpCalls, payload, answers, meta, uploads,
                   store, responses>>

ConcNext ==
    \E r \in Requests :
        \/ ConcReceive(r)
        \/ ConcGetClientReturn(r)
        \/ ConcGetAccessTokenReturn(r)
        \/ ConcProviderReturn(r)

ConcSpec == ConcInit /\ [][ConcNext]_vars

(***************************************************************************)
(* Vocabulary of the properties.                                           *)
(***************************************************************************)
IsPost == req.method = "POST"

Responded == pc = "done" /\ Len(responses) = 1

NoProviderCallNoUpload ==
    httpCalls = 0 /\ payload = NoPayload /\ answers = <<>> /\ uploads = <<>> /\ store = {}

AuthFailures ==
    {<<"could not load the auth client">>, <<"could not get an access token">>}

\* the modes some revision of the handler names
RecognizedModes == GenerateModes \cup {"generate-nanobanana", "upscale"}

\* a part that is an image, whatever the revision looks at
CarriesImage(parts) ==
    \E i \in 1..Len(parts) : parts[i].inlineData /\ parts[i].mimeType = "image/png"

CarriesText(parts) == \E i \in 1..Len(parts) : parts[i].text # <<>>

\* a well-formed Gemini answer with text and no image
IsRefusal(out) ==
    /\ out.k = "ok"
    /\ "parts" \in DOMAIN out
    /\ out.candidates = "list"
    /\ CarriesText(out.parts)
    /\ ~CarriesImage(out.parts)

\* msg contains text as a run of consecutive elements
Embeds(msg, text) ==
    \E o \in 0..(Len(msg) - Len(text)) : SubSeq(msg, o + 1, o + Len(text)) = text

(***************************************************************************)
(* C1: a 200 response never carries an empty images array: a provider      *)
(* answer with zero images ends in a failure response, in every mode.      *)
(* The code does not keep it: handleImagen only tests !result.predictions, *)
(* so an empty predictions list is mapped, saved (Promise.all of nothing)  *)
(* and answered with 200 { images: [] }.                                   *)
(***************************************************************************)
C1_NoEmptySuccess ==
    (IsPost /\ req.body.mode \in RecognizedModes) =>
        \A i \in 1..Len(responses) :
            responses[i].kind = "images" => responses[i].images # <<>>

(***************************************************************************)
(* C2: a POST whose mode is not a recognized mode (or is missing) fails    *)
(* with a validation error, with no provider HTTP call and no upload; it   *)
(* is never routed to a default model.  Revision 3 keeps it (the default   *)
(* of its switch throws); revisions 1 and 2 send every other mode to       *)
(* handleImagen and its default model.                                     *)
(***************************************************************************)
C2_UnknownModeRejected ==
    (IsPost /\ req.body.mode \notin RecognizedModes) =>
        /\ NoProviderCallNoUpload
        /\ payload.model = NoValue
        /\ pc = "done" => responses[1].status = 500

(***************************************************************************)
(* C3 as written: a POST with mode "upscale" and no reference image fails  *)
(* before any network call of the request: no token-provider call, no      *)
(* provider HTTP call and no upload.  The handler asks for the token       *)
(* before it looks at the body, so the token call does precede the         *)
(* validation failure.                                                     *)
(***************************************************************************)
C3_UpscaleNoImageNoNetworkCall ==
    (IsPost /\ req.body.mode = "upscale" /\ ~req.body.images /\ ~req.body.image
     /\ pc = "done" /\ responses[1].message \notin AuthFailures) =>
        /\ responses[1].status = 500
        /\ tokenCalls = 0
        /\ NoProviderCallNoUpload

(***************************************************************************)
(* C3 as amended: a POST with mode "upscale" and no reference image ends   *)
(* in a 500 failure with no provider HTTP call and no upload; only the     *)
(* token-provider call precedes the failure.  The failure is the           *)
(* missing-image validation error in revisions 1 and 3 and the "upscale    *)
(* unavailable" error in revision 2, unless the token step itself failed.  *)
(***************************************************************************)
C3_UpscaleNoImageFailsBeforeProvider ==
    (IsPost /\ req.body.mode = "upscale" /\ ~req.body.images /\ ~req.body.image) =>
        /\ NoProviderCallNoUpload
        /\ pc \in {"getClient", "getAccessToken", "done"}
        /\ pc = "done" =>
             /\ Len(responses) = 1
             /\ responses[1].status = 500
             /\ responses[1].message \in
                  AuthFailures \cup
                  {IF rev = 2 THEN <<"Upscale mode is currently unavailable.">>
                   ELSE <<"missing the image to upscale">>}
             /\ responses[1].message \notin AuthFailures => tokenCalls = 1

C3_Witness ==
    /\ IsPost /\ req.body.mode = "upscale" /\ ~req.body.images /\ ~req.body.image
    /\ Responded
    /\ responses[1].message = <<"missing the image to upscale">>
    /\ tokenCalls = 1

(***************************************************************************)
(* C4: a provider call whose every attempt ends in a transport failure is  *)
(* attempted exactly 3 times before it is reported failed.  vertexFetch    *)
(* has no retry: the first transport failure is thrown and reported.       *)
(***************************************************************************)
C4_ThreeAttemptsBeforeFailure ==
    (pc = "done" /\ req.body.mode \in RecognizedModes
     /\ answers # <<>> /\ \A i \in 1..Len(answers) : answers[i].k # "ok") =>
        /\ httpCalls = 3
        /\ Len(answers) = 3

(***************************************************************************)
(* C5: a semantic refusal is never retried: when the first answer to a     *)
(* generate-nanobanana request is well-formed, with text and no image,     *)
(* exactly one provider HTTP call is made for the request and the refusal  *)
(* is reported at once as a failure response.                              *)
(***************************************************************************)
C5_RefusalNotRetried ==
    (answers # <<>> /\ req.body.mode = "generate-nanobanana" /\ IsRefusal(answers[1])) =>
        /\ httpCalls = 1
        /\ Len(answers) = 1
        /\ uploads = <<>>
        /\ pc = "done"
        /\ Len(responses) = 1
        /\ responses[1].status = 500

C5_Witness ==
    /\ Responded
    /\ req.body.mode = "generate-nanobanana"
    /\ Len(answers) = 1
    /\ IsRefusal(answers[1])
    /\ httpCalls = 1
    /\ responses[1].status = 500
    /\ Embeds(responses[1].message, <<"n", "o">>)

(***************************************************************************)
(* C6: when a request produces zero images the failure tells refusal from  *)
(* no output: a text part and no image gives a message that embeds the     *)
(* refusal text, neither image nor text gives the generic no-image         *)
(* failure, for every refusal text.  Revision 2 breaks it: its catch       *)
(* replaces every message that contains "404", the refusal text included,  *)
(* by the model-access message.                                            *)
(***************************************************************************)
C6_RefusalTextReported ==
    (Responded /\ Len(answers) = 1 /\ IsPost /\ req.body.mode = "generate-nanobanana"
     /\ answers[1].k = "ok" /\ answers[1].candidates = "list" /\ uploads = <<>>) =>
        /\ responses[1].status = 500
        /\ IF CarriesText(answers[1].parts)
           THEN Embeds(responses[1].message, FirstText(answers[1].parts))
           ELSE responses[1].message = <<"Gemini generated no image data">>

(***************************************************************************)
(* C7: for every client-supplied image count (missing, non-numeric, zero,  *)
(* negative, above the ceiling) the sampleCount sent to the single-shot    *)
(* provider is an integer in 1..4 and the count raises no error: above 4   *)
(* becomes 4; missing, invalid and non-positive become 1.                  *)
(***************************************************************************)
HasNoDigit(chars) == \A i \in 1..Len(chars) : chars[i] \notin DigitChars

C7_SampleCountClamped ==
    LET n == req.body.numImages IN
    (IsPost /\ Route(rev, req.body.mode) = "imagen") =>
        /\ pc \in {"provider", "uploading"} => httpCalls = 1
        /\ (pc = "done" /\ httpCalls = 0) => responses[1].message \in AuthFailures
        /\ httpCalls > 0 =>
             /\ payload.family = "predict"
             /\ payload.sampleCount \in 1..4
             /\ n.t = "undefined" => payload.sampleCount = 1
             /\ (n.t = "string" /\ HasNoDigit(n.s)) => payload.sampleCount = 1
             /\ (n.t = "number" /\ n.n <= 0) => payload.sampleCount = 1
             /\ (n.t = "number" /\ n.n > 4) => payload.sampleCount = 4
             /\ (n.t = "number" /\ n.n \in 1..4) => payload.sampleCount = n.n

C7_Witness ==
    /\ IsPost
    /\ req.body.mode = "generate-default"
    /\ req.body.numImages = JNum(0 - 1)
    /\ httpCalls = 1
    /\ payload.sampleCount = 1

(***************************************************************************)
(* C8: in every outbound record the size label names the size tier that    *)
(* the call's payload asked the provider for (the provider's default, 1K,  *)
(* when the payload names none), and never 4K for an Imagen call.          *)
(* Revision 2 of handleImagen breaks it: it puts sampleImageSize "2K" in   *)
(* the payload and leaves the label at "1024x1024".                        *)
(***************************************************************************)
TierOfLabel(label) ==
    CASE label.text \in {"1024x1024", "1K (Default)"} -> "1K"
      [] label.text \in {"2048x2048", "2K"} -> "2K"
      [] label.text = "4K" -> "4K"
      [] OTHER -> "other"

C8_LabelNamesRequestedTier ==
    (IsPost /\ req.body.mode \in GenerateModes \cup {"generate-nanobanana"}) =>
        \A i \in 1..Len(responses) : \A j \in 1..Len(responses[i].images) :
            /\ TierOfLabel(responses[i].images[j].size) =
                 (IF payload.sampleImageSize = NoValue THEN "1K" ELSE payload.sampleImageSize)
            /\ payload.family = "predict" => TierOfLabel(responses[i].images[j].size) # "4K"

(***************************************************************************)
(* C9: when the request omits aspectRatio, every record of the success     *)
(* response carries aspectRatio "1:1", in the Imagen modes as well as in   *)
(* generate-nanobanana.  Only handleNanoBanana has the default; the Imagen  *)
(* handlers pass the undefined aspectRatio on to the records.              *)
(***************************************************************************)
C9_DefaultAspectRatio ==
    (IsPost /\ req.body.mode \in GenerateModes \cup {"generate-nanobanana"}
     /\ req.body.aspectRatio = NoValue) =>
        \A i \in 1..Len(responses) : \A j \in 1..Len(responses[i].images) :
            responses[i].images[j].aspectRatio = "1:1"

(***************************************************************************)
(* C10: a request gets exactly one response: OPTIONS gets 200 without a    *)
(* body, any other method but POST gets 405, both without a token-provider *)
(* call, a provider HTTP call or an upload; only POST requests reach the   *)
(* dispatch.                                                               *)
(***************************************************************************)
C10_MethodGate ==
    /\ Len(responses) <= 1
    /\ pc = "done" => Len(responses) = 1
    /\ req.method = "OPTIONS" => responses = <<Preflight>>
    /\ req.method \notin {"OPTIONS", "POST", "none"} => responses = <<MethodNotAllowed>>
    /\ req.method \notin {"POST", "none"} =>
         pc = "done" /\ tokenCalls = 0 /\ NoProviderCallNoUpload
    /\ (pc \in {"getClient", "getAccessToken", "provider", "uploading"} \/ tokenCalls > 0)
         => IsPost

C10_Witness ==
    /\ req.method = "GET"
    /\ responses = <<MethodNotAllowed>>
    /\ tokenCalls = 0
    /\ httpCalls = 0

(***************************************************************************)
(* C11: a POST request ends in exactly one of two responses: 200 with      *)
(* { images } when the token, the provider call and every upload           *)
(* succeeded, or 500 with { error: { message } } when one of these steps   *)
(* or the validation failed.  Once a step has failed the 500 is written:   *)
(* a failure never yields a 200 and never leaves the request unanswered.   *)
(***************************************************************************)
C11_PostEndsIn200Or500 ==
    IsPost =>
        /\ Len(responses) <= 1
        /\ pc = "done" <=> Len(responses) = 1
        /\ \A i \in 1..Len(responses) :
             \/ /\ responses[i].status = 200
                /\ responses[i].kind = "images"
                /\ tokenCalls = 1
                /\ httpCalls = 1
                /\ Len(answers) = 1
                /\ answers[1].k = "ok"
                /\ AllDone(uploads)
                /\ Len(responses[i].images) = Len(uploads)
             \/ /\ responses[i].status = 500
                /\ responses[i].kind = "error"
                /\ responses[i].message # <<>>
        \* the token step or the validation failed: the handler is done
        \* without a provider call
        /\ (pc = "done" /\ httpCalls = 0) => responses[1].status = 500
        \* the provider call failed
        /\ (answers # <<>> /\ answers[Len(answers)].k # "ok") =>
             Len(responses) = 1 /\ responses[1].status = 500
        \* an upload failed
        /\ Failed(uploads) # {} => Len(responses) = 1 /\ responses[1].status = 500

C11_Witness ==
    /\ IsPost
    /\ req.body.mode = "upscale"
    /\ Len(uploads) = 1
    /\ uploads[1].st = "failed"
    /\ uploads[1].error \in StorageErrors
    /\ Len(responses) = 1
    /\ responses[1].status = 500

(***************************************************************************)
(* C12: persistence is all-or-nothing for the response: when the save or   *)
(* the make-public step of any one image of a batch fails, the request is  *)
(* answered with 500 and no record, also when the other images of the      *)
(* batch were stored and made public.                                      *)
(***************************************************************************)
StorageFailed(tasks) ==
    {i \in 1..Len(tasks) : tasks[i].st = "failed" /\ tasks[i].error \in StorageErrors}

C12_UploadFailureFailsRequest ==
    StorageFailed(uploads) # {} =>
        /\ pc = "done"
        /\ Len(responses) = 1
        /\ responses[1].status = 500
        /\ responses[1].kind = "error"
        /\ responses[1].images = <<>>

C12_Witness ==
    /\ Len(uploads) = 2
    /\ uploads[1].st = "done"
    /\ [key |-> uploads[1].key, image |-> 1, public |-> TRUE] \in store
    /\ uploads[2].st = "failed"
    /\ uploads[2].error \in StorageErrors
    /\ responses = <<Failure(uploads[2].error)>>

(***************************************************************************)
(* C13: the records of a 200 response are in the order of the images of    *)
(* the provider response, whatever the order in which the uploads          *)
(* complete: there is one record per image, and the URL of the i-th        *)
(* record is the URL of the stored object that holds the i-th image.       *)
(***************************************************************************)
\* the images the handler extracts from the provider's answer, in its order
ImagesOfAnswer ==
    HandlerResult(rev, Route(rev, req.body.mode), answers[Len(answers)]).images

C13_RecordsInProviderOrder ==
    \A r \in 1..Len(responses) :
        responses[r].status = 200 /\ responses[r].kind = "images" =>
            /\ Len(responses[r].images) = Len(ImagesOfAnswer)
            /\ Len(responses[r].images) = Len(uploads)
            /\ \A j \in 1..Len(responses[r].images) :
                 /\ responses[r].images[j].url = uploads[j].key
                 /\ \A o \in store :
                      o.key = responses[r].images[j].url => o.image = j
                 /\ \E o \in store :
                      o.key = responses[r].images[j].url /\ o.image = j

C13_Witness ==
    /\ Len(responses) = 1
    /\ responses[1].status = 200
    /\ Len(responses[1].images) = 2
    /\ uploads[1].rank = 2
    /\ uploads[2].rank = 1

(***************************************************************************)
(* C14: for each image the steps are save, then make-public, then record.  *)
(* Make-public is issued only for an object that has been saved; a record  *)
(* exists only for an image whose save and make-public both succeeded;     *)
(* each record corresponds to exactly one stored object and no two records *)
(* share a storage key.                                                    *)
(***************************************************************************)
ObjectsAt(key) == {o \in store : o.key = key}

C14_SaveThenPublicThenRecord ==
    /\ \A i \in 1..Len(uploads) :
         /\ uploads[i].st = "saving" => ObjectsAt(uploads[i].key) = {}
         /\ uploads[i].st = "publishing" =>
              ObjectsAt(uploads[i].key) =
                  {[key |-> uploads[i].key, image |-> i, public |-> FALSE]}
         /\ uploads[i].st = "done" =>
              ObjectsAt(uploads[i].key) =
                  {[key |-> uploads[i].key, image |-> i, public |-> TRUE]}
    /\ \A o \in store : o.public =>
         \E i \in 1..Len(uploads) : uploads[i].key = o.key /\ uploads[i].st = "done"
    /\ \A r \in 1..Len(responses) :
         LET images == responses[r].images IN
         /\ \A j \in 1..Len(images) :
              /\ Cardinality(ObjectsAt(images[j].url)) = 1
              /\ \A o \in ObjectsAt(images[j].url) : o.public
              /\ \E i \in 1..Len(uploads) :
                   uploads[i].key = images[j].url /\ uploads[i].st = "done"
         /\ \A j, k \in 1..Len(images) : images[j].url = images[k].url => j = k

C14_Witness ==
    /\ Len(responses) = 1
    /\ responses[1].status = 200
    /\ Len(responses[1].images) = 2
    /\ Cardinality(store) = 2
    /\ \A o \in store : o.public

(***************************************************************************)
(* C15: every POST request calls the token provider once, at its start and *)
(* before any provider HTTP call, and the bearer token of its provider     *)
(* call is the token that this request obtained, never a token obtained by *)
(* an earlier or a concurrent request.                                     *)
(***************************************************************************)
C15_OwnTokenPerRequest ==
    \A r \in DOMAIN conc.h :
        LET c == conc.h[r] IN
        \* the token provider is engaged when the POST arrives, and only then
        /\ c.clientCalls = (IF c.method = "POST" THEN 1 ELSE 0)
        /\ c.tokenCalls <= c.clientCalls
        /\ c.pc \in {"getAccessToken", "provider"} => c.tokenCalls = 1
        /\ c.obtained # 0 => c.tokenCalls = 1
        \* no provider call before the token, and the call bears that token
        /\ c.httpCalls <= 1
        /\ c.httpCalls > 0 =>
             /\ c.tokenCalls = 1
             /\ c.obtained # 0
             /\ c.bearer = c.obtained
             /\ \A q \in DOMAIN conc.h : q # r => c.bearer # conc.h[q].obtained
        /\ c.status = 200 /\ c.method = "POST" => c.httpCalls = 1

C15_Witness ==
    /\ DOMAIN conc.h = Requests
    /\ conc.h[1].httpCalls = 1
    /\ conc.h[2].httpCalls = 1
    /\ conc.h[2].obtained < conc.h[1].obtained
    /\ conc.h[1].bearer = conc.h[1].obtained
    /\ conc.h[2].pc = "provider"

(***************************************************************************)
(* C16: when a request for several images is answered with 500 because the *)
(* save or the make-public step of one image failed, no object written by  *)
(* the request is stored and publicly readable, at the response or later:  *)
(* the failed request leaves the blob store as it was before the request.  *)
(***************************************************************************)
C16_FailedRequestLeavesNoObject ==
    (/\ IsPost
     /\ Len(uploads) > 1
     /\ StorageFailed(uploads) # {}
     /\ Len(responses) = 1
     /\ responses[1].status = 500)
        => \A o \in store : ~o.public

====
